---- MODULE Spec2Model ----
(***************************************************************************)
(* The Glitch Cube conversation agent                                      *)
(* (custom_components/glitchcube_conversation/conversation.py) as a state  *)
(* machine: concurrent conversation turns, each of which resolves the      *)
(* backend URL, POSTs the utterance, routes the backend's answer to one of *)
(* three handlers and drives the speak / delay / alert side effects.       *)
(***************************************************************************)
EXTENDS Integers, Sequences, FiniteSets, TLC

(***************************************************************************)
(* Bounds of the model.                                                    *)
(***************************************************************************)
\* number of turns the host runs concurrently
NumTurns == 2
\* time units by which a sleeping turn may oversleep its delay
MaxLate == 1

(***************************************************************************)
(* Program constants.                                                      *)
(***************************************************************************)
\* const.py:7
DEFAULT_PORT == 4567
\* conversation.py:297 and :341, conversation_data.get("continue_delay", 3)
DEFAULT_DELAY == 3
\* conversation.py:253, str(...claude_response...)[:100]
CLAUDE_SLICE == 100
\* conversation.py:184, response.status != 200
HTTP_OK == 200

(***************************************************************************)
(* Python / JSON values.  A value is a record tagged with its type, so     *)
(* that isinstance(), truthiness, str() and attribute errors can be        *)
(* computed as Python computes them.  A dict is a function from its keys;  *)
(* a key that is absent is not in its DOMAIN.                              *)
(***************************************************************************)
JNull == [t |-> "null"]
JStr(s) == [t |-> "str", v |-> s]
JNum(n) == [t |-> "num", v |-> n]
JBool(b) == [t |-> "bool", v |-> b]
JDict(f) == [t |-> "dict", v |-> f]
EmptyMap == [k \in {} |-> JNull]
EmptyDict == JDict(EmptyMap)

\* dict.get(key, default), on the mapping of a dict value
Get(f, k, default) == IF k \in DOMAIN f THEN f[k] ELSE default

\* Python truthiness (bool(x))
Truthy(x) ==
    CASE x.t = "null" -> FALSE
      [] x.t = "bool" -> x.v
      [] x.t = "num"  -> x.v # 0
      [] x.t = "str"  -> Len(x.v) > 0
      [] x.t = "dict" -> DOMAIN x.v # {}

\* str(x), for the scalar values
PyStr(x) ==
    CASE x.t = "null" -> "None"
      [] x.t = "bool" -> (IF x.v THEN "True" ELSE "False")
      [] x.t = "num"  -> ToString(x.v)
      [] x.t = "str"  -> x.v

\* the characters str.strip() removes that the model draws strings from
Whitespace == {" ", "\t", "\n"}

RECURSIVE LStrip(_)
LStrip(s) ==
    IF Len(s) > 0 /\ SubSeq(s, 1, 1) \in Whitespace
    THEN LStrip(SubSeq(s, 2, Len(s)))
    ELSE s

RECURSIVE RStrip(_)
RStrip(s) ==
    IF Len(s) > 0 /\ SubSeq(s, Len(s), Len(s)) \in Whitespace
    THEN RStrip(SubSeq(s, 1, Len(s) - 1))
    ELSE s

\* str.strip()
Strip(s) == RStrip(LStrip(s))

\* s[:n]
Slice(s, n) == IF Len(s) <= n THEN s ELSE SubSeq(s, 1, n)

\* n copies of the string c
RECURSIVE Rep(_, _)
Rep(c, n) == IF n <= 0 THEN "" ELSE c \o Rep(c, n - 1)

(***************************************************************************)
(* The outcome of evaluating Python code: a value, or a raised exception   *)
(* named by the class the except clauses of async_process tell apart.      *)
(***************************************************************************)
Ok(x) == [raised |-> "none", val |-> x]
Raise(cls) == [raised |-> cls, val |-> JNull]

\* x.get(key, default) on any value: AttributeError unless x is a dict
PyGet(x, k, default) ==
    IF x.t = "dict" THEN Ok(Get(x.v, k, default)) ELSE Raise("Exception")

(***************************************************************************)
(* _extract_response_text (conversation.py:236-267).                       *)
(***************************************************************************)
\* raw_response.get("speech", {}).get("plain", {}).get("speech")
NestedSpeech(raw) ==
    LET a == PyGet(raw, "speech", EmptyDict) IN
    IF a.raised # "none" THEN a ELSE
    LET b == PyGet(a.val, "plain", EmptyDict) IN
    IF b.raised # "none" THEN b ELSE
    PyGet(b.val, "speech", JNull)

\* str(raw_response.get("data", {}).get("custom_data", {})
\*         .get("claude_response", ""))[:100]
ClaudeResponse(raw) ==
    LET a == PyGet(raw, "data", EmptyDict) IN
    IF a.raised # "none" THEN a ELSE
    LET b == PyGet(a.val, "custom_data", EmptyDict) IN
    IF b.raised # "none" THEN b ELSE
    LET c == PyGet(b.val, "claude_response", JStr("")) IN
    IF c.raised # "none" THEN c ELSE
    Ok(JStr(Slice(PyStr(c.val), CLAUDE_SLICE)))

\* an `or` chain that tries the response field before the nested speech
DictResponseText_ResponseFirst(raw) ==
    LET s2 == Get(raw.v, "response", JNull) IN
    IF Truthy(s2) THEN Ok(s2)
    ELSE LET s1 == NestedSpeech(raw) IN
         IF s1.raised # "none" THEN s1
         ELSE IF Truthy(s1.val) THEN s1
         ELSE LET s3 == ClaudeResponse(raw) IN
              IF s3.raised # "none" THEN s3
              ELSE IF Truthy(s3.val) THEN s3
              ELSE Ok(JStr("I had some trouble with that response."))

\* the `or` chain of lines 247-256: the first truthy alternative, each
\* evaluated only when the ones before it are falsy
DictResponseText(raw) ==
    LET s1 == NestedSpeech(raw) IN
    IF s1.raised # "none" THEN s1
    ELSE IF Truthy(s1.val) THEN s1
    ELSE LET s2 == Get(raw.v, "response", JNull) IN
         IF Truthy(s2) THEN Ok(s2)
         ELSE LET s3 == ClaudeResponse(raw) IN
              IF s3.raised # "none" THEN s3
              ELSE IF Truthy(s3.val) THEN s3
              ELSE Ok(JStr("I had some trouble with that response."))

\* line 259: str(raw_response) if raw_response else "I didn't understand that."
PlainResponseText(raw) ==
    Ok(JStr(IF Truthy(raw) THEN PyStr(raw) ELSE "I didn't understand that."))

\* the extraction without the final check of lines 262-264
extract_response_text_NoSafety(conversation_data) ==
    LET raw_response == Get(conversation_data, "response", JStr(""))
        response_text == IF raw_response.t = "dict"
                         THEN DictResponseText(raw_response)
                         ELSE PlainResponseText(raw_response)
    IN  IF response_text.raised # "none" THEN response_text
        ELSE IF response_text.val.t # "str" THEN Raise("Exception")
        ELSE Ok(JStr(Strip(response_text.val.v)))

extract_response_text(conversation_data) ==
    LET raw_response == Get(conversation_data, "response", JStr(""))
        response_text == IF raw_response.t = "dict"
                         THEN DictResponseText(raw_response)
                         ELSE PlainResponseText(raw_response)
    IN  IF response_text.raised # "none" THEN response_text
        \* response_text.strip() of a value that is no string: AttributeError
        ELSE IF response_text.val.t # "str" THEN Raise("Exception")
        ELSE LET cleaned_text == Strip(response_text.val.v) IN
             IF cleaned_text = ""
             THEN Ok(JStr("Sorry, I'm having trouble speaking right now."))
             ELSE Ok(JStr(cleaned_text))

(***************************************************************************)
(* The entity and endpoint resolution (conversation.py:73-130).            *)
(***************************************************************************)
API_PATH == "/api/v1/conversation"
FALLBACK_HOST == "192.168.0.99"
SENTINELS == {"unknown", "unavailable", ""}

Url(host, port) == "http://" \o host \o ":" \o ToString(port) \o API_PATH

\* config_entry.data.get("port", DEFAULT_PORT)
ConfigPort(data) == Get(data, "port", JNum(DEFAULT_PORT)).v

\* __init__: self._config_entry and self._api_url
NewEntity(data) ==
    LET host == Get(data, "host", JStr("")) IN
    [config  |-> data,
     api_url |-> IF ~Truthy(host) THEN JNull
                 ELSE JStr(Url(host.v, ConfigPort(data)))]

\* The value of hass.states.get("input_text.glitchcube_host"): no such
\* entity (None), a state object carrying a string, or a read that raises.
NoState == [k |-> "none", state |-> ""]
RaisingState == [k |-> "raises", state |-> ""]
HostState(s) == [k |-> "state", state |-> s]

\* lines 106-108: the state object exists, its state is truthy and is not
\* one of the sentinels
DynamicHostValid(hs) ==
    /\ hs.k = "state"
    /\ hs.state # ""
    /\ hs.state \notin SENTINELS

\* lines 121-130: the configured URL, else the production address
StaticUrl(self) ==
    IF Truthy(self.api_url) THEN self.api_url.v
    ELSE Url(FALLBACK_HOST, ConfigPort(self.config))

\* the configured URL preferred to the dynamic host
get_current_api_url_StaticFirst(self, hs) ==
    IF Truthy(self.api_url) THEN self.api_url.v
    ELSE IF hs.k # "raises" /\ DynamicHostValid(hs)
         THEN Url(Strip(hs.state), ConfigPort(self.config))
         ELSE Url(FALLBACK_HOST, ConfigPort(self.config))

\* the resolution without the try/except of lines 104-119: a raising read
\* of the state store leaves it with no URL
get_current_api_url_Unguarded(self, hs) ==
    IF hs.k = "raises" THEN ""
    ELSE IF DynamicHostValid(hs)
         THEN Url(Strip(hs.state), ConfigPort(self.config))
         ELSE StaticUrl(self)

get_current_api_url(self, hs) ==
    IF hs.k = "raises" THEN StaticUrl(self)
    ELSE IF DynamicHostValid(hs)
         THEN Url(Strip(hs.state), ConfigPort(self.config))
         ELSE StaticUrl(self)

\* line 152
SessionId(conversation_id) == "voice_" \o conversation_id

(***************************************************************************)
(* The HTTP exchange as the turn sees it (conversation.py:176-192): the    *)
(* POST times out, fails in transport, or yields a status and a body; the  *)
(* body is read by response.json(), which raises aiohttp.ContentTypeError  *)
(* (an aiohttp.ClientError) when the Content-Type is not JSON and          *)
(* json.JSONDecodeError when the text is not JSON.                         *)
(***************************************************************************)
NoBody == [k |-> "none", v |-> JNull]
BadContentType == [k |-> "bad_content_type", v |-> JNull]
BadJson == [k |-> "bad_json", v |-> JNull]
JsonBody(x) == [k |-> "json", v |-> x]

HttpTimeout == [k |-> "timeout", status |-> 0, body |-> NoBody]
HttpClientError == [k |-> "client_error", status |-> 0, body |-> NoBody]
HttpResponse(status, body) == [k |-> "response", status |-> status, body |-> body]

\* the envelope {"success": true, "data": d}
Success(d) == HttpResponse(HTTP_OK, JsonBody(JDict("success" :> JBool(TRUE) @@ "data" :> JDict(d))))

(***************************************************************************)
(* async_process from the completion of the POST to the choice of the      *)
(* handler (lines 183-209): the exception raised, or the handler and its   *)
(* conversation_data.                                                      *)
(***************************************************************************)
Routed(h, d) == [raised |-> "none", handler |-> h, data |-> d]
RouteRaise(cls) == [raised |-> cls, handler |-> "none", data |-> EmptyMap]

\* a router that sends every type it does not know to the error handler
Dispatch_UnknownIsError(conversation_data) ==
    LET response_type == PyGet(conversation_data, "response_type", JStr("normal")) IN
    IF response_type.raised # "none" THEN RouteRaise("Exception")
    ELSE IF response_type.val = JStr("immediate_speech_with_background_tools")
         THEN Routed("immediate", conversation_data.v)
    ELSE IF response_type.val = JStr("normal")
         THEN Routed("normal", conversation_data.v)
    ELSE Routed("error", conversation_data.v)

\* lines 195-209
Dispatch(conversation_data) ==
    LET response_type == PyGet(conversation_data, "response_type", JStr("normal")) IN
    IF response_type.raised # "none" THEN RouteRaise("Exception")
    ELSE IF response_type.val = JStr("immediate_speech_with_background_tools")
         THEN Routed("immediate", conversation_data.v)
    ELSE IF response_type.val = JStr("error")
         THEN Routed("error", conversation_data.v)
    ELSE Routed("normal", conversation_data.v)

\* line 184
StatusOk(status) == status = HTTP_OK

\* a router that does not look at the envelope's success flag
Route_IgnoringSuccess(r) ==
    IF r.k = "timeout" THEN RouteRaise("TimeoutError")
    ELSE IF r.k = "client_error" THEN RouteRaise("ClientError")
    ELSE IF ~StatusOk(r.status) THEN RouteRaise("ConversationError")
    ELSE IF r.body.k = "bad_content_type" THEN RouteRaise("ClientError")
    ELSE IF r.body.k = "bad_json" THEN RouteRaise("Exception")
    ELSE IF r.body.v.t # "dict" THEN RouteRaise("Exception")
    ELSE Dispatch(Get(r.body.v.v, "data", EmptyDict))

Route(r) ==
    IF r.k = "timeout" THEN RouteRaise("TimeoutError")
    ELSE IF r.k = "client_error" THEN RouteRaise("ClientError")
    ELSE IF ~StatusOk(r.status) THEN RouteRaise("ConversationError")
    ELSE IF r.body.k = "bad_content_type" THEN RouteRaise("ClientError")
    ELSE IF r.body.k = "bad_json" THEN RouteRaise("Exception")
    ELSE LET result_data == r.body.v
             success == PyGet(result_data, "success", JBool(FALSE))
         IN  IF success.raised # "none" THEN RouteRaise("Exception")
             ELSE IF ~Truthy(success.val) THEN RouteRaise("ConversationError")
             ELSE Dispatch(Get(result_data.v, "data", EmptyDict))

(***************************************************************************)
(* The results and the except clauses of async_process (lines 211-225,     *)
(* 375-388).                                                               *)
(***************************************************************************)
TurnResult(speech, cont, cid) ==
    [speech |-> speech, continue_conversation |-> cont, conversation_id |-> cid]

MSG_TIMEOUT == "I'm having trouble thinking right now. Please try again."
MSG_CLIENT == "I can't connect to my brain right now. Please try again."
MSG_CONVERSATION == "Something went wrong with my thinking. Please try again."
MSG_UNEXPECTED == "I encountered an unexpected error. Please try again."

\* the except clause that catches an exception of class cls
ErrorMessage(cls) ==
    CASE cls = "TimeoutError" -> MSG_TIMEOUT
      [] cls = "ClientError" -> MSG_CLIENT
      [] cls = "ConversationError" -> MSG_CONVERSATION
      [] OTHER -> MSG_UNEXPECTED

\* an error response whose speech is never set
create_error_response_NoSpeech(cid, error_message) ==
    TurnResult(JStr(""), JBool(FALSE), cid)

\* an error response that does not carry the turn's conversation id
create_error_response_NoId(cid, error_message) ==
    TurnResult(JStr(error_message), JBool(FALSE), "")

create_error_response(cid, error_message) ==
    TurnResult(JStr(error_message), JBool(FALSE), cid)

(***************************************************************************)
(* The events of a turn, in the order they happen: the POST, the service   *)
(* calls (with whether the dispatch succeeded) and the sleep.              *)
(***************************************************************************)
\* the POST to url with session id session; seen is the state of the dynamic
\* host the URL was resolved from, n is 1 when another turn was in flight
PostEvent(url, session, seen, n) ==
    [ev |-> "post", msg |-> url, sid |-> session, n |-> n, ok |-> TRUE, seen |-> seen]
\* tts.cloud_say with message, and whether the dispatch succeeded
TtsEvent(message, ok) ==
    [ev |-> "tts", msg |-> message, sid |-> "", n |-> 0, ok |-> ok, seen |-> NoState]
\* asyncio.sleep(d)
SleepEvent(d) ==
    [ev |-> "sleep", msg |-> "", sid |-> "", n |-> d, ok |-> TRUE, seen |-> NoState]
\* media_player.play_media, after slept time units of sleep
AlertEvent(slept, ok) ==
    [ev |-> "alert", msg |-> "", sid |-> "", n |-> slept, ok |-> ok, seen |-> NoState]

\* what a step of a turn yields: the events it adds, and either the
\* suspension it ends in or the result it returns
Suspend(events, at) == [next |-> at, events |-> events, result |-> <<>>]
Return(events, res) == [next |-> "done", events |-> events, result |-> <<res>>]
\* an except clause that posts again before it answers
CaughtWithRetry(events, cls, cid) ==
    Return(Append(events, PostEvent("", "", NoState, 0)),
           create_error_response(cid, ErrorMessage(cls)))

\* an exception of class cls reaches the except clauses of async_process
Caught(events, cls, cid) == Return(events, create_error_response(cid, ErrorMessage(cls)))

\* asyncio.sleep(delay_seconds) accepts a number; anything else raises
\* TypeError in its comparison with 0
IsNumber(x) == x.t \in {"num", "bool"}
NumberOf(x) == IF x.t = "bool" THEN (IF x.v THEN 1 ELSE 0) ELSE x.v

\* conversation_data.get("continue_delay", 3)
DelayOf(conversation_data) == Get(conversation_data, "continue_delay", JNum(DEFAULT_DELAY))

\* the service call's exception leaves the handler
ServiceCallUnguarded(event) ==
    [raised |-> IF event.ok THEN "none" ELSE "Exception", val |-> event]

\* A failed service call raises inside try/except Exception (lines 280-294,
\* 359-373): the exception is logged and the handler goes on.
ServiceCall(event) == [raised |-> "none", val |-> event]

\* lines 296-299 and 341-343: the delay is read and the turn sleeps
EnterSleep(events, conversation_data, cid) ==
    LET delay_seconds == DelayOf(conversation_data) IN
    IF ~IsNumber(delay_seconds) THEN Caught(events, "Exception", cid)
    ELSE Suspend(Append(events, SleepEvent(NumberOf(delay_seconds))), "sleep")

\* _handle_immediate_speech_with_background_tools up to its sleep (269-299)
ImmediateBegin(conversation_data, cid, ttsOk) ==
    LET speech_text == Get(conversation_data, "speech_text", JStr("On it!")) IN
    \* line 278, speech_text[:50]
    IF speech_text.t # "str" THEN Caught(<<>>, "Exception", cid)
    ELSE LET call == ServiceCall(TtsEvent(speech_text.v, ttsOk)) IN
         IF call.raised # "none" THEN Caught(<<call.val>>, call.raised, cid)
         ELSE EnterSleep(<<call.val>>, conversation_data, cid)

\* an error handler that passes the payload's continue flag on
handle_error_response_PayloadFlag(conversation_data, cid) ==
    Return(<<>>, TurnResult(Get(conversation_data, "speech_text", JStr("I encountered an error.")),
                            Get(conversation_data, "continue_conversation", JBool(FALSE)), cid))

\* _handle_error_response (314-328)
handle_error_response(conversation_data, cid) ==
    Return(<<>>, TurnResult(Get(conversation_data, "speech_text", JStr("I encountered an error.")),
                            JBool(FALSE), cid))

\* a normal handler that returns the payload's flag without the re-arm
NormalBegin_NoRearm(conversation_data, cid) ==
    LET response_text == extract_response_text(conversation_data)
        continue_conversation == Get(conversation_data, "continue_conversation", JBool(FALSE))
    IN  IF response_text.raised # "none" THEN Caught(<<>>, response_text.raised, cid)
        ELSE Return(<<>>, TurnResult(response_text.val, continue_conversation, cid))

\* _handle_normal_response up to its sleep or, without one, its return (330-355)
NormalBegin(conversation_data, cid) ==
    LET response_text == extract_response_text(conversation_data)
        continue_conversation == Get(conversation_data, "continue_conversation", JBool(FALSE))
    IN  IF response_text.raised # "none" THEN Caught(<<>>, response_text.raised, cid)
        ELSE IF Truthy(continue_conversation)
             THEN EnterSleep(<<>>, conversation_data, cid)
             ELSE Return(<<>>, TurnResult(response_text.val, continue_conversation, cid))

\* the turn from the completion of the POST to its first suspension or return
OnResponse(r, cid, ttsOk) ==
    LET route == Route(r) IN
    IF route.raised # "none" THEN Caught(<<>>, route.raised, cid)
    ELSE CASE route.handler = "immediate" -> ImmediateBegin(route.data, cid, ttsOk)
           [] route.handler = "error" -> handle_error_response(route.data, cid)
           [] route.handler = "normal" -> NormalBegin(route.data, cid)

\* the result a handler returns after its sleep and alert (304-312, 351-355)
ResultAfterSleep(r, cid) ==
    LET route == Route(r) IN
    IF route.handler = "immediate"
    THEN TurnResult(JStr(" "), JBool(TRUE), cid)
    ELSE TurnResult(extract_response_text(route.data).val,
                    Get(route.data, "continue_conversation", JBool(FALSE)), cid)

\* a sleep that never returns
SleepNeverOver(slept, d) == FALSE

\* a sleep that is not awaited
SleepOverAtOnce(slept, d) == TRUE

\* asyncio.sleep(d) returns once d time units have passed (at once when d <= 0)
SleepOver(slept, d) == slept >= d

\* the turn from the end of its sleep to its return: _play_listening_resume_sound,
\* then the result
OnWake(r, cid, slept, alertOk) ==
    LET call == ServiceCall(AlertEvent(slept, alertOk)) IN
    IF call.raised # "none" THEN Caught(<<call.val>>, call.raised, cid)
    ELSE Return(<<call.val>>, ResultAfterSleep(r, cid))

(***************************************************************************)
(* State.                                                                  *)
(***************************************************************************)
VARIABLES
    entity,     \* the conversation entity: its config entry and _api_url
    hostState,  \* the state store's input_text.glitchcube_host
    pc,         \* where each turn is: idle, http, sleep, done, cancelled
    conv,       \* each turn's user_input.conversation_id
    resp,       \* the outcome of each turn's HTTP exchange, once it has one
    elapsed,    \* the time each sleeping turn has spent in its sleep
    trace,      \* each turn's events so far
    result      \* each turn's returned ConversationResult: <<>> or <<r>>

vars == <<entity, hostState, pc, conv, resp, elapsed, trace, result>>

Turns == 1..NumTurns
ConvIds == {"c1", "c2"}

(***************************************************************************)
(* The inputs the specifications draw from.                                *)
(***************************************************************************)
\* a dict with key k bound to one of vals, or without the key
Opt(k, vals) == {EmptyMap} \cup {k :> v : v \in vals}
Merge(A, B) == {a @@ b : a \in A, b \in B}

IMMEDIATE == JStr("immediate_speech_with_background_tools")

\* config entries: no host or a host, the default port or one of its own
Configs ==
    Merge(Opt("host", {JStr(""), JStr("cube.local")}), Opt("port", {JNum(8080)}))

\* states of input_text.glitchcube_host
HostStatesAll ==
    {NoState, RaisingState} \cup
    {HostState(s) : s \in {"", "unknown", "unavailable", "10.0.0.7", " 10.0.0.7\n", " "}}

\* outcomes of the HTTP exchange that are no successful envelope
Failures ==
    {HttpTimeout, HttpClientError,
     HttpResponse(500, NoBody), HttpResponse(404, NoBody), HttpResponse(201, NoBody),
     HttpResponse(201, JsonBody(JDict("success" :> JBool(TRUE)
                                        @@ "data" :> JDict("response" :> JStr("Created"))))),
     HttpResponse(HTTP_OK, BadContentType), HttpResponse(HTTP_OK, BadJson),
     HttpResponse(HTTP_OK, JsonBody(JNull)),
     HttpResponse(HTTP_OK, JsonBody(EmptyDict)),
     HttpResponse(HTTP_OK, JsonBody(JDict("success" :> JBool(FALSE) @@ "error" :> JStr("no")))),
     HttpResponse(HTTP_OK, JsonBody(JDict("success" :> JBool(TRUE) @@ "data" :> JNull)))}

Delays == {JNum(5), JNum(0), JNum(-1), JStr("soon"), JNull}
Flags == {JBool(TRUE), JBool(FALSE)}

ImmediatePayloads ==
    Merge({"response_type" :> IMMEDIATE},
      Merge(Opt("speech_text", {JStr("Working on it"), JStr(""), JNull}),
        Merge(Opt("continue_conversation", Flags), Opt("continue_delay", Delays))))

ErrorPayloads ==
    Merge({"response_type" :> JStr("error")},
      Merge(Opt("speech_text", {JStr("Backend failed"), JStr(""), JStr(" "), JNull}),
        Merge(Opt("continue_conversation", Flags), Opt("continue_delay", {JNum(5)}))))

\* shapes of the response field
Nested(x) == JDict("speech" :> JDict("plain" :> JDict("speech" :> x)))
Claude(x) == JDict("data" :> JDict("custom_data" :> JDict("claude_response" :> x)))
ResponseShapes ==
    {JStr(""), JStr(" \t"), JStr("plain text"), JStr(" Hello there\n"), JNull, JNum(0), JNum(7),
     EmptyDict,
     Nested(JStr("hi")), Nested(JStr(" ")), Nested(JStr("")), Nested(JNum(7)),
     JDict("speech" :> JNull), JDict("speech" :> JDict("plain" :> JStr("x"))),
     JDict("response" :> JStr("hello")), JDict("response" :> JStr("")),
     JDict("response" :> JStr("\n")), JDict("response" :> EmptyDict),
     JDict("response" :> JDict("text" :> JStr("x"))),
     JDict("speech" :> Nested(JStr("hi")).v["speech"] @@ "response" :> JStr("hello")),
     JDict("response" :> JStr("hello") @@ "data" :> Claude(JStr("claude")).v["data"]),
     JDict("speech" :> Nested(JStr("")).v["speech"] @@ "response" :> JStr("hello")),
     Claude(JStr("claude")), Claude(JStr("")), Claude(JNull), Claude(JStr(" ")),
     Claude(JStr(Rep("a", CLAUDE_SLICE) \o "b")),
     Claude(JStr(Rep(" ", CLAUDE_SLICE) \o "b")),
     JDict("data" :> JNull), JDict("data" :> JDict("custom_data" :> JStr("x")))}

NormalPayloads ==
    Merge(Opt("response_type", {JStr("normal"), JStr("mystery"), JStr("Error"), JNull}),
      Merge(Opt("response", ResponseShapes),
        Merge(Opt("continue_conversation", Flags \cup {JNum(1), JNull}),
              Opt("continue_delay", {JNum(5), JStr("soon")}))))

ResponsesAll ==
    Failures \cup {Success(d) : d \in ImmediatePayloads \cup ErrorPayloads \cup NormalPayloads}

\* a few of each kind, for the turns that run concurrently
ResponsesFew ==
    {HttpTimeout, HttpResponse(500, NoBody),
     Success("response_type" :> IMMEDIATE @@ "speech_text" :> JStr("Working on it")),
     Success("response_type" :> JStr("error") @@ "speech_text" :> JStr("Backend failed")),
     Success("response" :> JStr("Hello there")),
     Success("response" :> JStr("Hello there") @@ "continue_conversation" :> JBool(TRUE)
             @@ "continue_delay" :> JNum(1))}

\* one that fails, one that returns at once, one of each handler that sleeps
ResponsesOverlap ==
    {HttpTimeout,
     Success("response" :> JStr("Hello there")),
     Success("response_type" :> IMMEDIATE @@ "continue_delay" :> JNum(2)),
     Success("response" :> JStr("Hello there") @@ "continue_conversation" :> JBool(TRUE)
             @@ "continue_delay" :> JNum(1))}

(***************************************************************************)
(* Actions.  A turn is suspended, and other turns run, at its two awaits:  *)
(* the HTTP exchange and asyncio.sleep.                                    *)
(***************************************************************************)
InitOf(Cfgs, Hosts) ==
    /\ entity \in {NewEntity(c) : c \in Cfgs}
    /\ hostState \in Hosts
    /\ pc = [t \in Turns |-> "idle"]
    /\ conv = [t \in Turns |-> ""]
    /\ resp = [t \in Turns |-> HttpTimeout]
    /\ elapsed = [t \in Turns |-> 0]
    /\ trace = [t \in Turns |-> <<>>]
    /\ result = [t \in Turns |-> <<>>]

\* the host publishes another value of input_text.glitchcube_host
SetHost(hs) ==
    /\ hs # hostState
    /\ hostState' = hs
    /\ UNCHANGED <<entity, pc, conv, resp, elapsed, trace, result>>

\* the turns other than t that are suspended in an await
InFlight(t) == {u \in Turns \ {t} : pc[u] \in {"http", "sleep"}}

\* a sleep that blocks the event loop (time.sleep): no turn runs meanwhile
LoopFreeBlockingSleep(t) == \A u \in Turns \ {t} : pc[u] # "sleep"

\* Whether the event loop can run turn t.  A turn holds the loop only
\* between two awaits, which is within one action; a turn suspended in
\* `async with session.post` (178) or `await asyncio.sleep` (299, 343) has
\* yielded it.
LoopFree(t) == TRUE

\* a turn that reuses the URL an earlier turn resolved
StartCached(t, cid) ==
    /\ pc[t] = "idle"
    /\ LoopFree(t)
    /\ pc' = [pc EXCEPT ![t] = "http"]
    /\ conv' = [conv EXCEPT ![t] = cid]
    /\ trace' = [trace EXCEPT ![t] =
                   <<PostEvent(IF \E u \in Turns : trace[u] # <<>>
                               THEN trace[CHOOSE u \in Turns : trace[u] # <<>>][1].msg
                               ELSE get_current_api_url(entity, hostState),
                               SessionId(cid), hostState,
                               IF InFlight(t) = {} THEN 0 ELSE 1)>>]
    /\ UNCHANGED <<entity, hostState, resp, elapsed, result>>

\* async_process, lines 136-182: the URL is resolved, the session id is
\* derived and the POST is issued
Start(t, cid) ==
    /\ pc[t] = "idle"
    /\ LoopFree(t)
    /\ pc' = [pc EXCEPT ![t] = "http"]
    /\ conv' = [conv EXCEPT ![t] = cid]
    /\ trace' = [trace EXCEPT ![t] =
                   <<PostEvent(get_current_api_url(entity, hostState), SessionId(cid),
                               hostState, IF InFlight(t) = {} THEN 0 ELSE 1)>>]
    /\ UNCHANGED <<entity, hostState, resp, elapsed, result>>

\* a step outcome o applied to turn t
Apply(t, o) ==
    /\ pc' = [pc EXCEPT ![t] = o.next]
    /\ trace' = [trace EXCEPT ![t] = trace[t] \o o.events]
    /\ result' = [result EXCEPT ![t] = o.result]

\* the event loop resumes turn t, suspended at the await `at` with HTTP
\* outcome r, and the turn runs to its next suspension or return with step
\* outcome o
Resume(t, at, r, o) ==
    /\ pc[t] = at
    /\ LoopFree(t)
    /\ resp' = [resp EXCEPT ![t] = r]
    /\ Apply(t, o)
    /\ elapsed' = [elapsed EXCEPT ![t] = 0]
    /\ UNCHANGED <<entity, hostState, conv>>

\* the HTTP exchange ends with outcome r; the turn runs to its sleep or return
Respond(t, r, ttsOk) == Resume(t, "http", r, OnResponse(r, conv[t], ttsOk))

\* the delay of the sleep turn t is in
Sleeping(t) == trace[t][Len(trace[t])].n

\* the longest sleep of turn t the model follows; elapsed[t] stops there
Horizon(t) == (IF Sleeping(t) > 0 THEN Sleeping(t) ELSE 0) + MaxLate

\* time passes, for every sleeping turn
Tick ==
    /\ \E t \in Turns : pc[t] = "sleep" /\ elapsed[t] < Horizon(t)
    /\ elapsed' = [t \in Turns |->
                     IF pc[t] = "sleep" /\ elapsed[t] < Horizon(t)
                     THEN elapsed[t] + 1 ELSE elapsed[t]]
    /\ UNCHANGED <<entity, hostState, pc, conv, resp, trace, result>>

\* the sleep of turn t is over
SleepDone(t) == SleepOver(elapsed[t], Sleeping(t))

\* the sleep ends; the turn plays the alert and returns
Wake(t, alertOk) ==
    /\ pc[t] = "sleep"
    /\ SleepDone(t)
    /\ Resume(t, "sleep", resp[t], OnWake(resp[t], conv[t], elapsed[t], alertOk))

\* a cancellation that an except clause catches and answers with an apology
CancelCaught(t) ==
    /\ pc[t] \in {"http", "sleep"}
    /\ pc' = [pc EXCEPT ![t] = "cancelled"]
    /\ result' = [result EXCEPT ![t] = <<create_error_response(conv[t], MSG_UNEXPECTED)>>]
    /\ elapsed' = [elapsed EXCEPT ![t] = 0]
    /\ UNCHANGED <<entity, hostState, conv, resp, trace>>

\* the host cancels the task of a suspended turn: CancelledError, which no
\* except clause of async_process catches
Cancel(t) ==
    /\ pc[t] \in {"http", "sleep"}
    /\ pc' = [pc EXCEPT ![t] = "cancelled"]
    /\ elapsed' = [elapsed EXCEPT ![t] = 0]
    /\ UNCHANGED <<entity, hostState, conv, resp, trace, result>>

\* the steps of the turns Ts, with requests from Cids and HTTP outcomes
\* from Responses
TurnNext(Ts, Cids, Responses) ==
    \/ \E t \in Ts, cid \in Cids : Start(t, cid)
    \/ \E t \in Ts, r \in Responses, ttsOk \in BOOLEAN : Respond(t, r, ttsOk)
    \/ Tick
    \/ \E t \in Ts, alertOk \in BOOLEAN : Wake(t, alertOk)
    \/ \E t \in Ts : Cancel(t)

\* concurrent turns
Init == InitOf({EmptyMap}, {HostState("10.0.0.7")})
Next == TurnNext(Turns, {"c1"}, ResponsesFew)
Spec == Init /\ [][Next]_vars

\* concurrent turns that run to their end and whose service calls succeed
NextOverlap ==
    \/ \E t \in Turns : Start(t, "c1")
    \/ \E t \in Turns, r \in ResponsesOverlap : Respond(t, r, TRUE)
    \/ Tick
    \/ \E t \in Turns : Wake(t, TRUE)
SpecOverlap == Init /\ [][NextOverlap]_vars

\* one turn, every payload
InitPayload == InitOf({EmptyMap}, {NoState})
NextPayload == TurnNext({1}, ConvIds, ResponsesAll)
SpecPayload == InitPayload /\ [][NextPayload]_vars

\* one turn, every configuration and every state of the dynamic host
InitEndpoint == InitOf(Configs, HostStatesAll)
NextEndpoint ==
    \/ \E hs \in HostStatesAll : SetHost(hs)
    \/ TurnNext({1}, ConvIds, ResponsesFew)
SpecEndpoint == InitEndpoint /\ [][NextEndpoint]_vars

\* one turn under a scheduler that is fair: the HTTP exchange ends
\* (ClientTimeout bounds it, line 176), time passes while the turn sleeps,
\* and the event loop resumes a turn whose sleep is over.  The outcomes are
\* every failure, one payload of each handler, and every delay.
ResponsesLive ==
    Failures \cup ResponsesFew \cup
    {Success(d) : d \in Merge({"response_type" :> IMMEDIATE}, Opt("continue_delay", Delays))}
NextLive == TurnNext({1}, ConvIds, ResponsesLive)
Fairness ==
    /\ \A t \in Turns :
         /\ WF_vars(\E r \in ResponsesLive, ttsOk \in BOOLEAN : Respond(t, r, ttsOk))
         /\ WF_vars(\E alertOk \in BOOLEAN : Wake(t, alertOk))
    /\ WF_vars(Tick)
SpecLive == InitPayload /\ [][NextLive]_vars /\ Fairness

\* concurrent turns of the same and of different conversations, whose
\* service calls succeed
NextSessions ==
    \/ \E t \in Turns, cid \in ConvIds : Start(t, cid)
    \/ \E t \in Turns, r \in ResponsesFew : Respond(t, r, TRUE)
    \/ Tick
    \/ \E t \in Turns : Wake(t, TRUE)
SpecSessions == Init /\ [][NextSessions]_vars

\* turns between which the dynamic host changes
HostStatesFew ==
    {NoState, HostState("unknown"), HostState("10.0.0.7"), HostState("10.0.0.8")}
InitRehost == InitOf({EmptyMap, "host" :> JStr("cube.local")}, HostStatesFew)
NextRehost ==
    \/ \E hs \in HostStatesFew : SetHost(hs)
    \/ \E t \in Turns : Start(t, "c1")
    \/ \E t \in Turns, r \in {HttpTimeout, Success("response" :> JStr("Hello there"))} :
           Respond(t, r, TRUE)
SpecRehost == InitRehost /\ [][NextRehost]_vars

(***************************************************************************)
(* Vocabulary of the properties: what a turn was given and what it did,    *)
(* read off the HTTP outcome, the trace and the result.                    *)
(***************************************************************************)
\* r is a successful envelope: status 200 and a JSON object with
\* "success": true whose "data", when present, is an object
IsEnvelope(r) ==
    /\ r.k = "response"
    /\ r.status = 200
    /\ r.body.k = "json"
    /\ r.body.v.t = "dict"
    /\ "success" \in DOMAIN r.body.v.v
    /\ r.body.v.v["success"] = JBool(TRUE)
    /\ ("data" \in DOMAIN r.body.v.v => r.body.v.v["data"].t = "dict")

\* the "data" object of a successful envelope
Payload(r) == IF "data" \in DOMAIN r.body.v.v THEN r.body.v.v["data"].v ELSE EmptyMap

Has(d, k) == k \in DOMAIN d
HasType(r, ty) ==
    IsEnvelope(r) /\ Has(Payload(r), "response_type") /\ Payload(r)["response_type"] = JStr(ty)
TypeAbsent(r) == IsEnvelope(r) /\ ~Has(Payload(r), "response_type")

Done(t) == pc[t] = "done"
Speech(t) == result[t][1].speech
Continue(t) == result[t][1].continue_conversation
Events(t, kind) == {i \in DOMAIN trace[t] : trace[t][i].ev = kind}
Kinds(t) == [i \in DOMAIN trace[t] |-> trace[t][i].ev]

\* the turn returned exactly this text and flag, for its own conversation
Says(t, text, cont) ==
    result[t] = <<[speech |-> JStr(text), continue_conversation |-> JBool(cont),
                   conversation_id |-> conv[t]]>>

\* a spoken text that is a string with something other than whitespace
NonBlank(x) == x.t = "str" /\ Strip(x.v) # ""

\* C1: every failure of the backend call ends the turn with a result whose
\* continue flag is false and whose text is fixed by the failure class:
\* timeout, transport failure, non-success status or success:false, and
\* anything else, a malformed body included.
C1_FailureApologies ==
    \A t \in Turns : Done(t) =>
        LET r == resp[t] IN
        /\ r.k = "timeout" =>
             Says(t, "I'm having trouble thinking right now. Please try again.", FALSE)
        /\ r.k = "client_error" =>
             Says(t, "I can't connect to my brain right now. Please try again.", FALSE)
        /\ (r.k = "response" /\ r.status \notin 200..299) =>
             Says(t, "Something went wrong with my thinking. Please try again.", FALSE)
        /\ (r.k = "response" /\ r.status = 200 /\ r.body.k = "json" /\ r.body.v.t = "dict"
              /\ (~Has(r.body.v.v, "success") \/ r.body.v.v["success"] = JBool(FALSE))) =>
             Says(t, "Something went wrong with my thinking. Please try again.", FALSE)
        /\ (r.k = "response" /\ r.status = 200
              /\ (\/ r.body.k \in {"bad_content_type", "bad_json"}
                  \/ r.body.k = "json" /\ r.body.v.t # "dict"
                  \/ r.body.k = "json" /\ r.body.v.t = "dict"
                       /\ Has(r.body.v.v, "success") /\ r.body.v.v["success"] = JBool(TRUE)
                       /\ Has(r.body.v.v, "data") /\ r.body.v.v["data"].t # "dict")) =>
             Says(t, "I encountered an unexpected error. Please try again.", FALSE)

\* C2: a successful envelope of the immediate-speech type always yields
\* continue = true and an empty or whitespace text, whatever its other fields.
C2_ImmediateKeepsSessionOpen ==
    \A t \in Turns : (Done(t) /\ HasType(resp[t], "immediate_speech_with_background_tools")) =>
        /\ Continue(t) = JBool(TRUE)
        /\ Speech(t).t = "str"
        /\ Strip(Speech(t).v) = ""

\* C3: a successful envelope of type "error" yields continue = false whatever
\* the payload's flag, the payload's speech_text (or the default) as text,
\* and neither a delay nor an alert.
C3_ErrorEndsSession ==
    \A t \in Turns : HasType(resp[t], "error") =>
        /\ pc[t] # "sleep"
        /\ Done(t) =>
             /\ Continue(t) = JBool(FALSE)
             /\ Speech(t) = IF Has(Payload(resp[t]), "speech_text")
                            THEN Payload(resp[t])["speech_text"]
                            ELSE JStr("I encountered an error.")
             /\ Events(t, "sleep") = {}
             /\ Events(t, "alert") = {}
             /\ Events(t, "tts") = {}

C3_Witness ==
    \E t \in Turns :
        /\ Done(t)
        /\ HasType(resp[t], "error")
        /\ Has(Payload(resp[t]), "continue_conversation")
        /\ Payload(resp[t])["continue_conversation"] = JBool(TRUE)
        /\ Has(Payload(resp[t]), "continue_delay")
        /\ Speech(t) = JStr("Backend failed")
        /\ Continue(t) = JBool(FALSE)

\* C4 as stated: every result returned, on every path, has a text that is
\* non-empty after trimming.
C4_EveryResultNonBlank ==
    \A t \in Turns : Done(t) => NonBlank(Speech(t))

\* C4 as amended: the immediate-speech variant returns the text " " after
\* its re-arm, the error variant returns the payload's speech_text as it
\* is, and every other result (the Normal variant, every failure path) has
\* a text that is non-empty after trimming.
C4_NonBlankExceptImmediateAndError ==
    \A t \in Turns : Done(t) =>
        IF HasType(resp[t], "immediate_speech_with_background_tools") /\ Events(t, "alert") # {}
        THEN Speech(t) = JStr(" ")
        ELSE IF HasType(resp[t], "error")
        THEN Has(Payload(resp[t]), "speech_text") => Speech(t) = Payload(resp[t])["speech_text"]
        ELSE NonBlank(Speech(t))

C4_Witness ==
    \E t \in Turns :
        /\ Done(t)
        /\ HasType(resp[t], "immediate_speech_with_background_tools")
        /\ Events(t, "alert") # {}
        /\ Speech(t) = JStr(" ")

\* C5: a successful payload whose type is absent or "normal" yields a text
\* that is neither empty nor whitespace, whatever its response field.
C5_NormalTextNonBlank ==
    \A t \in Turns : (Done(t) /\ (TypeAbsent(resp[t]) \/ HasType(resp[t], "normal"))) =>
        NonBlank(Speech(t))

C5_Witness ==
    \E t \in Turns :
        /\ Done(t)
        /\ TypeAbsent(resp[t])
        /\ Has(Payload(resp[t]), "response")
        /\ Payload(resp[t])["response"] = JStr(" \t")
        /\ Speech(t) = JStr("Sorry, I'm having trouble speaking right now.")

\* the URL the priority order of C6 gives for config entry cfg and dynamic
\* host state hs
PriorityUrl(cfg, hs) ==
    LET port == IF Has(cfg, "port") THEN cfg["port"].v ELSE 4567
        host == IF hs.k = "state" /\ hs.state \notin {"", "unknown", "unavailable"}
                THEN Strip(hs.state)
                ELSE IF Has(cfg, "host") /\ cfg["host"].v # ""
                THEN cfg["host"].v
                ELSE "192.168.0.99"
    IN  "http://" \o host \o ":" \o ToString(port) \o "/api/v1/conversation"

\* C6: the POST goes to the dynamic host when one is published and is no
\* sentinel, else to the configured host when there is one, else to
\* 192.168.0.99; the port is the configured one, 4567 by default.
C6_EndpointPriority ==
    \A t \in Turns : trace[t] # <<>> =>
        /\ trace[t][1].ev = "post"
        /\ trace[t][1].msg = PriorityUrl(entity.config, trace[t][1].seen)

C6_Witness ==
    \E t \in Turns :
        /\ trace[t] # <<>>
        /\ trace[t][1].seen = HostState("10.0.0.7")
        /\ Has(entity.config, "host")
        /\ entity.config["host"] = JStr("cube.local")
        /\ ~Has(entity.config, "port")
        /\ trace[t][1].msg = "http://10.0.0.7:4567/api/v1/conversation"

\* the payload's continue_delay, 3 when absent
PayloadDelay(r) ==
    IF Has(Payload(r), "continue_delay") THEN Payload(r)["continue_delay"].v ELSE 3

\* C7: the alert is dispatched only after the turn has slept for at least
\* the payload's delay (3 by default), never before or during the sleep.
C7_AlertAfterDelay ==
    \A t \in Turns :
        /\ pc[t] = "sleep" => Events(t, "alert") = {}
        /\ \A i \in Events(t, "alert") :
             /\ i > 1
             /\ trace[t][i - 1].ev = "sleep"
             /\ trace[t][i - 1].n = PayloadDelay(resp[t])
             /\ trace[t][i].n >= PayloadDelay(resp[t])

C7_Witness ==
    \E t \in Turns :
        /\ Done(t)
        /\ IsEnvelope(resp[t])
        /\ Has(Payload(resp[t]), "continue_delay")
        /\ Payload(resp[t])["continue_delay"] = JNum(5)
        /\ \E i \in Events(t, "alert") : trace[t][i].n >= 5

\* C8: a failed side effect neither fails the turn nor changes its result:
\* two turns given the same request and the same backend response return
\* the same result and go through the same steps, whichever of their
\* service calls failed, and a failed speak call is still followed by the
\* delay and the alert.
C8_SideEffectFailureHarmless ==
    /\ \A t, u \in Turns :
         (Done(t) /\ Done(u) /\ resp[t] = resp[u] /\ conv[t] = conv[u]) =>
            /\ result[t] = result[u]
            /\ Kinds(t) = Kinds(u)
    /\ \A t \in Turns : Done(t) =>
         \A i \in Events(t, "tts") :
            ~trace[t][i].ok =>
                /\ Len(trace[t]) = i + 2
                /\ trace[t][i + 1].ev = "sleep"
                /\ trace[t][i + 2].ev = "alert"

C8_Witness ==
    \E t, u \in Turns :
        /\ Done(t) /\ Done(u)
        /\ resp[t] = resp[u]
        /\ HasType(resp[t], "immediate_speech_with_background_tools")
        /\ \A i \in DOMAIN trace[t] : trace[t][i].ok
        /\ \E i \in Events(u, "tts") : ~trace[u][i].ok
        /\ \E i \in Events(u, "alert") : ~trace[u][i].ok
        /\ result[t] = result[u]
        /\ Continue(u) = JBool(TRUE)

\* C9: a turn issues exactly one POST, whether the call succeeds or fails.
C9_OnePost ==
    \A t \in Turns :
        Cardinality(Events(t, "post")) = IF pc[t] = "idle" THEN 0 ELSE 1

C9_Witness ==
    \E t \in Turns :
        /\ Done(t)
        /\ resp[t].k = "timeout"
        /\ Cardinality(Events(t, "post")) = 1

\* the result and the steps of a turn that runs alone
Alone(r, cid) ==
    LET first == OnResponse(r, cid, TRUE) IN
    IF first.next = "done" THEN first
    ELSE LET second == OnWake(r, cid, 0, TRUE) IN
         [second EXCEPT !.events = first.events \o second.events]

\* C10: a turn suspended in its HTTP call or its delay keeps no other turn
\* from running, and a turn's result and steps are those it has when it
\* runs alone with the same request and backend response.
C10_TurnsIndependent ==
    \A t \in Turns :
        /\ pc[t] = "idle" => ENABLED Start(t, "c1")
        /\ pc[t] = "http" =>
             \A r \in ResponsesOverlap : \A o \in {OnResponse(r, conv[t], TRUE)} :
                 ENABLED Resume(t, "http", r, o)
        /\ (pc[t] = "sleep" /\ elapsed[t] >= Sleeping(t)) =>
             \A o \in {OnWake(resp[t], conv[t], elapsed[t], TRUE)} :
                 ENABLED Resume(t, "sleep", resp[t], o)
        /\ Done(t) =>
             LET alone == Alone(resp[t], conv[t]) IN
             /\ result[t] = alone.result
             /\ Kinds(t) = <<"post">> \o [i \in DOMAIN alone.events |-> alone.events[i].ev]

\* turn 2 began alone and is still asleep; turn 1 began while turn 2 was in
\* flight, slept, and has returned
C10_Witness ==
    /\ pc[2] = "sleep"
    /\ elapsed[2] < Sleeping(2)
    /\ trace[2][1].n = 0
    /\ Done(1)
    /\ trace[1][1].n = 1
    /\ Events(1, "alert") # {}

\* C11: a turn the host cancels in its HTTP call or in its delay is
\* abandoned: from the cancellation on it dispatches no service call (no
\* speak call, no alert), makes no HTTP request and returns no result, an
\* apology included.
C11_CancelledTurnAbandoned ==
    [][\A t \in Turns :
          (pc[t] = "cancelled" \/ pc'[t] = "cancelled") =>
              /\ pc'[t] = "cancelled"
              /\ trace'[t] = trace[t]
              /\ trace[t][Len(trace[t])].ev \in {"post", "sleep"}
              /\ result'[t] = <<>>]_vars

\* a turn cancelled in the delay that follows its speak call
C11_Witness ==
    \E t \in Turns :
        /\ pc[t] = "cancelled"
        /\ Events(t, "tts") # {}
        /\ trace[t][Len(trace[t])].ev = "sleep"
        /\ Events(t, "alert") = {}
        /\ result[t] = <<>>

\* C12: the endpoint is resolved for every turn from the dynamic host as it
\* is when that turn starts, and nothing is cached on the entity: of two
\* turns, each posts to the URL its own reading of the dynamic host gives,
\* so that the URLs differ whenever the readings give different endpoints.
C12_EndpointPerTurn ==
    /\ entity = NewEntity(entity.config)
    /\ \A t, u \in Turns :
         (t # u /\ trace[t] # <<>> /\ trace[u] # <<>>) =>
            LET mine == PriorityUrl(entity.config, trace[u][1].seen)
                other == PriorityUrl(entity.config, trace[t][1].seen)
            IN  /\ trace[u][1].msg = mine
                /\ (mine # other) => trace[u][1].msg # trace[t][1].msg

\* a turn posted to the dynamic host and returned; the host then became a
\* sentinel, and the next turn posted to the static endpoint
C12_Witness ==
    \E t, u \in Turns :
        /\ Done(t)
        /\ trace[t][1].seen = HostState("10.0.0.7")
        /\ trace[t][1].msg = "http://10.0.0.7:4567/api/v1/conversation"
        /\ trace[u] # <<>>
        /\ trace[u][1].n = 0
        /\ trace[u][1].seen = HostState("unknown")
        /\ trace[u][1].msg # trace[t][1].msg

\* the host part of u when u is http://<host>:<port>/api/v1/conversation
\* with the port of cfg (4567 when it has none), else <<>>
EndpointHost(u, cfg) ==
    LET pre == "http://"
        suf == ":" \o ToString(IF Has(cfg, "port") THEN cfg["port"].v ELSE 4567)
                   \o "/api/v1/conversation"
    IN  IF /\ Len(u) >= Len(pre) + Len(suf)
           /\ SubSeq(u, 1, Len(pre)) = pre
           /\ SubSeq(u, Len(u) - Len(suf) + 1, Len(u)) = suf
        THEN <<SubSeq(u, Len(pre) + 1, Len(u) - Len(suf))>>
        ELSE <<>>

\* C13: endpoint resolution is total: whatever the dynamic source is (no
\* entity, a sentinel, a host, a read that raises) and whether or not a host
\* is configured, the turn gets a URL and goes on to its POST; the URL names
\* a host unless the published value is nothing but whitespace.
C13_ResolutionTotal ==
    \A t \in Turns : pc[t] # "idle" =>
        /\ trace[t] # <<>>
        /\ trace[t][1].ev = "post"
        /\ LET host == EndpointHost(trace[t][1].msg, entity.config)
               seen == trace[t][1].seen
           IN  /\ host # <<>>
               /\ (seen.k = "state" => Strip(seen.state) # "" \/ seen.state = "") => host[1] # ""

\* the read of the state store raised and no host is configured: the turn
\* posts to the production address
C13_Witness ==
    \E t \in Turns :
        /\ pc[t] = "http"
        /\ trace[t][1].seen = RaisingState
        /\ ~Has(entity.config, "host")
        /\ trace[t][1].msg = "http://192.168.0.99:4567/api/v1/conversation"

\* C14: a response is a status failure exactly when its status is not 2xx:
\* every other status is answered with the status apology, and a 2xx
\* response with a success:true envelope is routed, with the result the
\* same envelope has under status 200.
C14_StatusFailureIffNon2xx ==
    \A t \in Turns : (Done(t) /\ resp[t].k = "response") =>
        LET r == resp[t] IN
        /\ r.status \notin 200..299 =>
             Says(t, "Something went wrong with my thinking. Please try again.", FALSE)
        /\ (r.status \in 200..299 /\ IsEnvelope([r EXCEPT !.status = 200])) =>
             result[t] = Alone([r EXCEPT !.status = 200], conv[t]).result

\* C15: a successful payload is handled by exactly one of three handlers:
\* the immediate-speech handler for exactly that response type, the error
\* handler for exactly "error", and the normal handler for every other
\* type, an absent, null or unknown one included.  The handler shows in what
\* the turn did: only the immediate-speech handler speaks, the error handler
\* returns the payload's speech_text at once, the normal handler returns the
\* text extracted from the response field.
C15_RoutingClosed ==
    \A t \in Turns : (Done(t) /\ IsEnvelope(resp[t])) =>
        LET d == Payload(resp[t])
            ty == IF Has(d, "response_type") THEN d["response_type"] ELSE JNull
            text == extract_response_text(d)
            cont == Get(d, "continue_conversation", JBool(FALSE))
        IN  /\ Cardinality(Events(t, "tts")) <= 1
            /\ Len(result[t]) = 1
            /\ IF ty = JStr("immediate_speech_with_background_tools")
               THEN \/ Events(t, "tts") # {} /\ Speech(t) = JStr(" ")
                    \/ Says(t, "I encountered an unexpected error. Please try again.", FALSE)
               ELSE IF ty = JStr("error")
               THEN /\ Kinds(t) = <<"post">>
                    /\ Speech(t) = Get(d, "speech_text", JStr("I encountered an error."))
                    /\ Continue(t) = JBool(FALSE)
               ELSE /\ Events(t, "tts") = {}
                    /\ IF text.raised # "none" \/ (Truthy(cont) /\ ~IsNumber(DelayOf(d)))
                       THEN Says(t, "I encountered an unexpected error. Please try again.", FALSE)
                       ELSE Speech(t) = text.val /\ Continue(t) = cont

\* payloads of an unknown type, of a near miss of "error" and of a null
\* type, each answered by the normal handler
C15_Witness ==
    \E t \in Turns :
        /\ Done(t)
        /\ \/ HasType(resp[t], "mystery")
           \/ HasType(resp[t], "Error")
        /\ Has(Payload(resp[t]), "response")
        /\ Payload(resp[t])["response"] = JStr("plain text")
        /\ Speech(t) = JStr("plain text")

\* x[k] of an object that has the key, else null
Sub(x, k) == IF x.t = "dict" /\ Has(x.v, k) THEN x.v[k] ELSE JNull
NestedText(raw) == Sub(Sub(Sub(raw, "speech"), "plain"), "speech")
ClaudeText(raw) == Sub(Sub(Sub(raw, "data"), "custom_data"), "claude_response")
\* the shape is not there, or holds the empty string
NoNested(raw) == ~Has(raw.v, "speech") \/ NestedText(raw) = JStr("")
NoResponse(raw) == ~Has(raw.v, "response") \/ raw.v["response"] \in {JStr(""), JNull}

\* a turn the normal handler answered from its response field (its delay,
\* when it takes one, being a number)
Extracted(t) ==
    /\ Done(t)
    /\ IsEnvelope(resp[t])
    /\ ~HasType(resp[t], "immediate_speech_with_background_tools")
    /\ ~HasType(resp[t], "error")
    /\ Has(Payload(resp[t]), "response")
    /\ (Truthy(Get(Payload(resp[t]), "continue_conversation", JBool(FALSE)))
          => IsNumber(DelayOf(Payload(resp[t]))))

\* the text spoken for the response field raw: Text(x) when the first shape
\* with a string that Keep accepts holds x, with KeepC and TextC in their
\* place for the claude_response
SpokenBy(t, raw, Keep(_), Text(_), KeepC(_), TextC(_)) ==
    /\ (raw.t = "str" /\ Keep(raw.v)) => Speech(t) = JStr(Text(raw.v))
    /\ raw.t = "dict" =>
         LET n == NestedText(raw)
             r == Sub(raw, "response")
             c == ClaudeText(raw)
         IN  /\ (n.t = "str" /\ Keep(n.v)) => Speech(t) = JStr(Text(n.v))
             /\ (NoNested(raw) /\ r.t = "str" /\ Keep(r.v)) => Speech(t) = JStr(Text(r.v))
             /\ (NoNested(raw) /\ NoResponse(raw) /\ c.t = "str" /\ KeepC(c.v)) =>
                    Speech(t) = JStr(TextC(c.v))
             /\ (DOMAIN raw.v \cap {"speech", "response", "data"} = {}) =>
                    Speech(t) = JStr("I had some trouble with that response.")

AsIs(x) == x
NonEmpty(x) == x # ""
Trimmed(x) == Strip(x)
TrimmedHead(x) == Strip(Slice(x, 100))
KeepsTrimmed(x) == Strip(x) # ""
KeepsTrimmedHead(x) == Strip(Slice(x, 100)) # ""

Normal(t) ==
    /\ Done(t)
    /\ IsEnvelope(resp[t])
    /\ ~HasType(resp[t], "immediate_speech_with_background_tools")
    /\ ~HasType(resp[t], "error")

\* C17: the normal handler takes the delayed re-arm exactly when the
\* payload's continue_conversation is true: then the turn sleeps, dispatches
\* the alert and returns continue = true; when the flag is false or absent
\* the turn neither sleeps nor alerts and returns continue = false.
C17_RearmIffContinue ==
    \A t \in Turns : Normal(t) =>
        IF Get(Payload(resp[t]), "continue_conversation", JBool(FALSE)) = JBool(TRUE)
        THEN Kinds(t) = <<"post", "sleep", "alert">> /\ Continue(t) = JBool(TRUE)
        ELSE Kinds(t) = <<"post">> /\ Continue(t) = JBool(FALSE)

\* C18: the immediate-speech handler dispatches the speak call once, then
\* sleeps, then dispatches the alert, and only then returns, whatever the
\* payload's continue_conversation is.
C18_ImmediateOrder ==
    \A t \in Turns : HasType(resp[t], "immediate_speech_with_background_tools") =>
        /\ pc[t] = "sleep" => Kinds(t) = <<"post", "tts", "sleep">> /\ result[t] = <<>>
        /\ Done(t) => Kinds(t) = <<"post", "tts", "sleep", "alert">>

\* the four apologies of async_process
Apologies ==
    {JStr("I'm having trouble thinking right now. Please try again."),
     JStr("I can't connect to my brain right now. Please try again."),
     JStr("Something went wrong with my thinking. Please try again."),
     JStr("I encountered an unexpected error. Please try again.")}

\* C19: the handlers are entered only from a successful payload: a turn
\* whose backend call failed (timeout, transport failure, status other than
\* success, success:false or absent, malformed body) never sleeps, and
\* returns having done nothing but its POST: no speak call, no delay, no
\* alert, and an apology with continue = false as its result.
C19_FailureBypassesHandlers ==
    \A t \in Turns :
        /\ pc[t] = "sleep" => IsEnvelope(resp[t])
        /\ (Done(t) /\ ~IsEnvelope(resp[t])) =>
              /\ Kinds(t) = <<"post">>
              /\ Speech(t) \in Apologies
              /\ Continue(t) = JBool(FALSE)

\* a success:false envelope, answered with the apology alone
C19_Witness ==
    \E t \in Turns :
        /\ Done(t)
        /\ resp[t].k = "response" /\ resp[t].status = 200 /\ resp[t].body.k = "json"
        /\ resp[t].body.v.t = "dict"
        /\ Has(resp[t].body.v.v, "success")
        /\ resp[t].body.v.v["success"] = JBool(FALSE)
        /\ Kinds(t) = <<"post">>
        /\ Says(t, "Something went wrong with my thinking. Please try again.", FALSE)

\* C20: a started turn that is not cancelled returns, and returns exactly
\* one result, which then stays; a failed backend call is answered in the
\* very step in which the call ends, with no sleep and no second POST.
C20_TurnTerminates ==
    /\ \A t \in Turns : (pc[t] = "http") ~> (pc[t] \in {"done", "cancelled"})
    /\ [](\A t \in Turns : (Len(result[t]) = 1) <=> Done(t))
    /\ [][\A t \in Turns :
            /\ Done(t) => (pc'[t] = "done" /\ result'[t] = result[t])
            /\ (pc[t] = "http" /\ pc'[t] \notin {"http", "cancelled"} /\ ~IsEnvelope(resp'[t])) =>
                  (pc'[t] = "done" /\ Kinds(t)' = <<"post">>)]_vars

\* a turn that spoke, slept its five time units, and returned
C20_Witness ==
    \E t \in Turns :
        /\ Done(t)
        /\ Len(result[t]) = 1
        /\ Kinds(t) = <<"post", "tts", "sleep", "alert">>
        /\ trace[t][3].n = 5

\* C21: the alert is attempted in a turn exactly when the turn returns a
\* true continue flag: at most once, in the step in which the turn returns,
\* right after the sleep; a turn that ends the session, every apology
\* included, has attempted no alert, and so has a turn that has not
\* returned.
C21_AlertIffContinue ==
    \A t \in Turns :
        /\ Cardinality(Events(t, "alert")) <= 1
        /\ ~Done(t) => Events(t, "alert") = {}
        /\ Done(t) =>
             /\ (Events(t, "alert") # {}) <=> Truthy(Continue(t))
             /\ Speech(t) \in Apologies => Events(t, "alert") = {}
             /\ \A i \in Events(t, "alert") :
                  i = Len(trace[t]) /\ i > 1 /\ trace[t][i - 1].ev = "sleep"

\* the normal handler re-armed, the alert's dispatch failed, and the turn
\* still returned continue = true
C21_Witness ==
    \E t \in Turns :
        /\ Normal(t)
        /\ Continue(t) = JBool(TRUE)
        /\ \E i \in Events(t, "alert") : ~trace[t][i].ok

\* C22: the URL a turn posts to always names a host: a dynamic value that
\* names none, one of nothing but whitespace included, is passed over for
\* the configured host or the production address.
C22_HostNonEmpty ==
    \A t \in Turns : trace[t] # <<>> =>
        LET host == EndpointHost(trace[t][1].msg, entity.config) IN
        /\ host # <<>>
        /\ host[1] # ""
        /\ (trace[t][1].seen.k = "state" /\ Strip(trace[t][1].seen.state) = "") =>
              host[1] = (IF Has(entity.config, "host") /\ entity.config["host"].v # ""
                         THEN entity.config["host"].v ELSE "192.168.0.99")

\* C23: on every path the result carries the conversation id of the turn's
\* request, and the session id posted to the backend is that id behind the
\* prefix "voice_": two turns of one conversation post the same session id,
\* two turns of different conversations different ones.
C23_TurnContinuity ==
    /\ \A t \in Turns :
         /\ trace[t] # <<>> => trace[t][1].sid = "voice_" \o conv[t]
         /\ Done(t) => (Len(result[t]) = 1 /\ result[t][1].conversation_id = conv[t])
    /\ \A t, u \in Turns :
         (trace[t] # <<>> /\ trace[u] # <<>>) =>
            (trace[t][1].sid = trace[u][1].sid <=> conv[t] = conv[u])

\* two turns of conversation c2, one answered with an apology and one by
\* the immediate-speech handler
C23_Witness ==
    \E t, u \in Turns :
        /\ Done(t) /\ Done(u)
        /\ conv[t] = "c2" /\ conv[u] = "c2"
        /\ trace[t][1].sid = "voice_c2" /\ trace[u][1].sid = "voice_c2"
        /\ Speech(t) \in Apologies
        /\ Speech(u) = JStr(" ")
        /\ result[t][1].conversation_id = "c2"
        /\ result[u][1].conversation_id = "c2"

====
